---- MODULE Spec2Model ----
(***************************************************************************)
(* The WLST pipeline of src/src/wlst_mcp.py: a tool handler composes a     *)
(* script, _execute_wlst_script writes it to a temporary file, launches    *)
(* the interpreter, races its completion against a timeout, deletes the    *)
(* file, and the handler classifies the captured output into the string    *)
(* it returns.                                                             *)
(*                                                                         *)
(* Text.  A Python str is a sequence of lines (what str.split('\n')        *)
(* yields) and a line is a sequence of tokens.  A token is either one of   *)
(* the literal markers the scripts print (written exactly as printed,      *)
(* e.g. "START_ERROR: ") or an atom of other text.  The substring tests    *)
(* of the code ('START_ERROR' in stdout) are token membership, and         *)
(* str.replace(marker, '') removes the marker tokens.                      *)
(*                                                                         *)
(* Steps.  A coroutine runs without interruption between two awaits, so    *)
(* each action is the code between two suspension points of one handler.   *)
(***************************************************************************)
EXTENDS Integers, Sequences, FiniteSets, TLC

VARIABLES
    pc,           \* per invocation: where the handler coroutine is
    params,       \* per invocation: the validated input of the tool call
    script,       \* per invocation: the composed script handed to the runner
    files,        \* names present in the temporary directory
    script_path,  \* per invocation: f.name of its NamedTemporaryFile
    proc,         \* per invocation: state of the interpreter process
    child,        \* per invocation: what the interpreter process produced
    result,       \* per invocation: the dict _execute_wlst_script returned
    outcome,      \* per invocation: what the tool handler returned or raised
    hist          \* per invocation: record of what the runner and the script did (history)

vars == <<pc, params, script, files, script_path, proc, child, result, outcome, hist>>

-----------------------------------------------------------------------------
(* Bounds of the model *)

\* Number of tool invocations (coroutines on the event loop) in the model.
NumInv == 2
\* Longest captured stdout, in lines, the interpreter produces.
MaxLines == 2

Invs == 1 .. NumInv

\* Names tempfile.NamedTemporaryFile can draw; it never returns a name in use.
TmpNames == 1 .. NumInv

-----------------------------------------------------------------------------
(* Configuration *)

DEFAULT_TIMEOUT == 120

\* The timeout field of an input model: 0 stands for None, the others are
\* values its ge=10 / le=600 validation admits.
TimeoutParams == {0, 10}

IntToStr(n) ==
    CASE n = 10  -> "10"
      [] n = 120 -> "120"
      [] n = 240 -> "240"
      [] OTHER   -> "other"

-----------------------------------------------------------------------------
(* Python values *)

PyNone == [none |-> TRUE, s |-> << >>]
PyStr(s) == [none |-> FALSE, s |-> s]
\* bool(x) of an Optional[str]: None and '' are falsy.
Truthy(x) == ~x.none /\ x.s # << >>

\* 'tok' in line
Contains(line, tok) == \E k \in 1 .. Len(line) : line[k] = tok
\* 'tok' in text (a marker holds no newline, so it lies within one line)
InText(text, tok) == \E n \in 1 .. Len(text) : Contains(text[n], tok)
\* [l for l in text.split('\n') if tok in l]
LinesWith(text, tok) == SelectSeq(text, LAMBDA l : Contains(l, tok))
\* line.replace(tok, '')
Replace(line, tok) == SelectSeq(line, LAMBDA t : t # tok)


\* '\n'.join(text): the text as one token sequence, "\n" between lines.
RECURSIVE Join(_)
Join(text) ==
    IF text = << >> THEN << >>
    ELSE IF Len(text) = 1 THEN text[1]
    ELSE text[1] \o <<"\n">> \o Join(Tail(text))

\* A search that returns the last occurrence.
Find_last(s, tok) ==
    IF \E k \in 1 .. Len(s) : s[k] = tok
    THEN CHOOSE k \in 1 .. Len(s) : s[k] = tok /\ \A j \in k + 1 .. Len(s) : s[j] # tok
    ELSE 0

\* s.find(tok): index of the first occurrence, 0 when absent (Python's -1).
Find(s, tok) ==
    IF \E k \in 1 .. Len(s) : s[k] = tok
    THEN CHOOSE k \in 1 .. Len(s) : s[k] = tok /\ \A j \in 1 .. k - 1 : s[j] # tok
    ELSE 0

\* s.strip(): leading and trailing newlines removed.
RECURSIVE Strip(_)
Strip(s) ==
    IF s = << >> THEN s
    ELSE IF Head(s) = "\n" THEN Strip(Tail(s))
    ELSE IF s[Len(s)] = "\n" THEN Strip(SubSeq(s, 1, Len(s) - 1))
    ELSE s

-----------------------------------------------------------------------------
(* The tools and their markers *)

JsonOps == {"wlst_list_servers", "wlst_list_applications", "wlst_server_health",
            "wlst_server_metrics", "wlst_list_datasources", "wlst_list_jms_resources"}

LifecycleOps == {"wlst_start_server", "wlst_stop_server", "wlst_restart_server",
                 "wlst_deploy", "wlst_undeploy"}

Ops == JsonOps \cup LifecycleOps \cup
       {"wlst_test_connection", "wlst_thread_dump", "wlst_execute_script"}

\* Tools whose input model has a timeout field.
TimeoutOps == {"wlst_test_connection", "wlst_start_server", "wlst_stop_server",
               "wlst_restart_server", "wlst_undeploy", "wlst_execute_script"}

NoTag == "<none>"

CONNECTION_ERROR == "CONNECTION_ERROR: "
THREAD_DUMP_START == "THREAD_DUMP_START"
THREAD_DUMP_END == "THREAD_DUMP_END"

\* The marker a tool's script prints on success and the handler looks for.
SuccessTag(op) ==
    CASE op = "wlst_test_connection"    -> "CONNECTION_SUCCESS"
      [] op = "wlst_list_servers"       -> "SERVERS_JSON:"
      [] op = "wlst_start_server"       -> "SERVER_STARTED: "
      [] op = "wlst_stop_server"        -> "SERVER_STOPPED: "
      [] op = "wlst_restart_server"     -> "SERVER_RESTARTED: "
      [] op = "wlst_deploy"             -> "DEPLOY_SUCCESS: "
      [] op = "wlst_undeploy"           -> "UNDEPLOY_SUCCESS: "
      [] op = "wlst_list_applications"  -> "APPS_JSON:"
      [] op = "wlst_server_health"      -> "HEALTH_JSON:"
      [] op = "wlst_server_metrics"     -> "METRICS_JSON:"
      [] op = "wlst_list_datasources"   -> "DS_JSON:"
      [] op = "wlst_list_jms_resources" -> "JMS_JSON:"
      [] op = "wlst_thread_dump"        -> THREAD_DUMP_START
      [] OTHER                          -> NoTag

\* The marker a tool's script prints when the operation itself fails.
ErrorTag(op) ==
    CASE op = "wlst_start_server"   -> "START_ERROR: "
      [] op = "wlst_stop_server"    -> "STOP_ERROR: "
      [] op = "wlst_restart_server" -> "RESTART_ERROR: "
      [] op = "wlst_deploy"         -> "DEPLOY_ERROR: "
      [] op = "wlst_undeploy"       -> "UNDEPLOY_ERROR: "
      [] op = "wlst_server_metrics" -> "METRICS_ERROR: "
      [] op = "wlst_thread_dump"    -> "THREAD_DUMP_ERROR: "
      [] OTHER                      -> NoTag

-----------------------------------------------------------------------------
(* JSON texts and json.loads *)

J_EMPTY_ARRAY == "[]"
J_EMPTY_OBJECT == "{}"
\* An array of objects with the fields the tool's script puts in each element.
J_ROWS == "[{...}]"
\* An object with the fields the script of the metrics / JMS tool emits.
J_OBJECT == "{...}"
\* An object of another shape.
J_ODD == "{\"jvm\": 1}"
\* The value the JMS handler starts from: {'servers': [], 'modules': []}.
J_JMS_DEFAULT == "{\"servers\": [], \"modules\": []}"

JsonTexts == {J_EMPTY_ARRAY, J_EMPTY_OBJECT, J_ROWS, J_OBJECT, J_ODD}

\* json.loads(s) returns a value exactly when s is one JSON text.
Decodes(s) == Len(s) = 1 /\ s[1] \in JsonTexts

\* Python's None, where a handler starts from it (metrics = None).
J_NONE == "None"

\* not value
Falsy(v) == v \in {J_EMPTY_ARRAY, J_EMPTY_OBJECT, J_NONE}

\* A loop that stops at the first tagged line that decodes.
RECURSIVE ParseTagged_first(_, _, _)
ParseTagged_first(text, tag, v) ==
    IF text = << >> THEN v
    ELSE LET line == Head(text)
             rest == Replace(line, tag)
         IN  IF Contains(line, tag) /\ Decodes(rest) THEN rest[1]
             ELSE ParseTagged_first(Tail(text), tag, v)

\* A loop in which a tagged line that fails to decode overwrites the value.
RECURSIVE ParseTagged_no_skip(_, _, _)
ParseTagged_no_skip(text, tag, v) ==
    IF text = << >> THEN v
    ELSE LET line == Head(text)
             rest == Replace(line, tag)
         IN  ParseTagged_no_skip(Tail(text), tag,
                                 IF Contains(line, tag)
                                 THEN (IF Decodes(rest) THEN rest[1] ELSE "garbage")
                                 ELSE v)

\* for line in stdout.split('\n'): if tag in line: try: v = json.loads(
\*     line.replace(tag, '')) except: pass  -- the value after the loop.
RECURSIVE ParseTagged(_, _, _)
ParseTagged(text, tag, v) ==
    IF text = << >> THEN v
    ELSE LET line == Head(text)
             rest == Replace(line, tag)
         IN  ParseTagged(Tail(text), tag,
                         IF Contains(line, tag) /\ Decodes(rest) THEN rest[1] ELSE v)


-----------------------------------------------------------------------------
(* What a tool handler hands back.  kind names the return statement taken  *)
(* (or "Raised" for an exception leaving the handler), msg is the returned *)
(* string, payload the structured data the string renders.                 *)

Returned(kind, msg) == [kind |-> kind, msg |-> msg, payload |-> PyNone]
Success(msg, payload) == [kind |-> "Success", msg |-> msg, payload |-> PyStr(payload)]
\* An exception turned into a returned error string.
Raised_as_value(exc) == [kind |-> "Error", msg |-> <<exc>>, payload |-> PyNone]

Raised(exc) == [kind |-> "Raised", msg |-> <<exc>>, payload |-> PyNone]
NoOutcome == [kind |-> "none", msg |-> << >>, payload |-> PyNone]

OutcomeKinds == {"Success", "ConnectionFailure", "Error", "UnknownError",
                 "OperationFailure", "Unable", "ScriptFailed", "Raised"}

\* An error handler that never looks for the connection-error marker.
_handle_error_no_marker(res) ==
    IF Truthy(res.error)
    THEN Returned("Error", <<"Error: ">> \o res.error.s)
    ELSE Returned("UnknownError",
                  <<"Error: Unknown error occurred during WLST execution">>)

\* def _handle_error(result)
_handle_error(res) ==
    IF InText(res.stdout, CONNECTION_ERROR)
    THEN Returned("ConnectionFailure",
                  <<"Error: Connection failed. ">>
                      \o LinesWith(res.stdout, CONNECTION_ERROR)[1])
    ELSE IF Truthy(res.error)
    THEN Returned("Error", <<"Error: ">> \o res.error.s)
    ELSE Returned("UnknownError",
                  <<"Error: Unknown error occurred during WLST execution">>)

\* next((l.replace(tag, '') for l in lines if tag in l), 'Unknown')
FirstTagged(text, tag) ==
    IF InText(text, tag) THEN Replace(LinesWith(text, tag)[1], tag) ELSE <<"Unknown">>

\* A connection test that accepts the success marker whatever the exit status.
wlst_test_connection_marker_only(p, res) ==
    IF InText(res.stdout, "CONNECTION_SUCCESS")
    THEN Success(<<"Connection successful!">>
                     \o FirstTagged(res.stdout, "DOMAIN_NAME: ")
                     \o FirstTagged(res.stdout, "DOMAIN_VERSION: ")
                     \o <<p.admin_url>>,
                 <<"CONNECTION_SUCCESS">>)
    ELSE _handle_error(res)

\* async def wlst_test_connection(params), after the runner returned
wlst_test_connection(p, res) ==
    IF res.success /\ InText(res.stdout, "CONNECTION_SUCCESS")
    THEN Success(<<"Connection successful!">>
                     \o FirstTagged(res.stdout, "DOMAIN_NAME: ")
                     \o FirstTagged(res.stdout, "DOMAIN_VERSION: ")
                     \o <<p.admin_url>>,
                 <<"CONNECTION_SUCCESS">>)
    ELSE _handle_error(res)

\* A handler tail that accepts the success marker whatever the exit status.
LifecycleReturn_marker_only(p, res, okText, errText) ==
    LET ok  == SuccessTag(p.op)
        err == ErrorTag(p.op)
    IN  IF InText(res.stdout, ok)
        THEN Success(<<okText>>, <<ok>>)
        ELSE IF InText(res.stdout, err)
        THEN Returned("OperationFailure",
                      <<errText>> \o Replace(LinesWith(res.stdout, err)[1], err))
        ELSE _handle_error(res)

\* A handler tail that tests the exit status before its own markers.
LifecycleReturn_status_first(p, res, okText, errText) ==
    LET ok  == SuccessTag(p.op)
        err == ErrorTag(p.op)
    IN  IF ~res.success THEN _handle_error(res)
        ELSE IF InText(res.stdout, ok)
        THEN Success(<<okText>>, <<ok>>)
        ELSE IF InText(res.stdout, err)
        THEN Returned("OperationFailure",
                      <<errText>> \o Replace(LinesWith(res.stdout, err)[1], err))
        ELSE _handle_error(res)

\* A handler tail that looks for its error marker before its success marker.
LifecycleReturn_error_first(p, res, okText, errText) ==
    LET ok  == SuccessTag(p.op)
        err == ErrorTag(p.op)
    IN  IF InText(res.stdout, err)
        THEN Returned("OperationFailure",
                      <<errText>> \o Replace(LinesWith(res.stdout, err)[1], err))
        ELSE IF res.success /\ InText(res.stdout, ok)
        THEN Success(<<okText>>, <<ok>>)
        ELSE _handle_error(res)

\* A handler tail that reports the last line with its error marker.
LifecycleReturn_last_error_line(p, res, okText, errText) ==
    LET ok  == SuccessTag(p.op)
        err == ErrorTag(p.op)
        els == LinesWith(res.stdout, err)
    IN  IF res.success /\ InText(res.stdout, ok)
        THEN Success(<<okText>>, <<ok>>)
        ELSE IF InText(res.stdout, err)
        THEN Returned("OperationFailure", <<errText>> \o Replace(els[Len(els)], err))
        ELSE _handle_error(res)

\* The tail shared by wlst_start_server, wlst_stop_server, wlst_restart_server,
\* wlst_deploy and wlst_undeploy: success marker, then error marker, then
\* _handle_error.
LifecycleReturn(p, res, okText, errText) ==
    LET ok  == SuccessTag(p.op)
        err == ErrorTag(p.op)
    IN  IF res.success /\ InText(res.stdout, ok)
        THEN Success(<<okText>>, <<ok>>)
        ELSE IF InText(res.stdout, err)
        THEN Returned("OperationFailure",
                      <<errText>> \o Replace(LinesWith(res.stdout, err)[1], err))
        ELSE _handle_error(res)

wlst_start_server(p, res) ==
    LifecycleReturn(p, res, "Server started successfully.", "Error starting server: ")

wlst_stop_server(p, res) ==
    LifecycleReturn(p, res, "Server stopped successfully.", "Error stopping server: ")

wlst_restart_server(p, res) ==
    LifecycleReturn(p, res, "Server restarted successfully.", "Error restarting server: ")

wlst_deploy(p, res) ==
    LifecycleReturn(p, res, "Application deployed successfully.",
                    "Error deploying application: ")

wlst_undeploy(p, res) ==
    LifecycleReturn(p, res, "Application undeployed successfully.",
                    "Error undeploying application: ")

\* Whether the handler's rendering of a decoded, truthy value completes; it
\* raises TypeError / KeyError / AttributeError where it indexes a value of
\* another shape than its script emits.
Renders(op, fmt, v) ==
    IF fmt = "json" THEN TRUE
    ELSE CASE op \in {"wlst_list_servers", "wlst_list_applications",
                      "wlst_server_health"}      -> v = J_ROWS
           [] op = "wlst_server_metrics"         -> v # J_ODD
           [] op = "wlst_list_datasources"       -> v \in {J_EMPTY_ARRAY, J_EMPTY_OBJECT, J_ROWS}
           [] op = "wlst_list_jms_resources"     -> v \in {J_OBJECT, J_JMS_DEFAULT}
           [] OTHER                              -> TRUE

\* json.dumps(...) or the markdown lines, or the exception of the rendering
Render(p, v, title) ==
    IF Renders(p.op, p.response_format, v)
    THEN Success(<<title, v>>, <<v>>)
    ELSE Raised("TypeError")

\* wlst_list_servers, wlst_list_applications, wlst_server_health
ListReturn(p, res, emptyText, title) ==
    IF ~res.success THEN _handle_error(res)
    ELSE LET v == ParseTagged(res.stdout, SuccessTag(p.op), J_EMPTY_ARRAY)
         IN  IF Falsy(v) THEN Returned("Unable", <<emptyText>>)
             ELSE Render(p, v, title)

wlst_list_servers(p, res) ==
    ListReturn(p, res, "No servers found or unable to parse server list.",
               "# WebLogic Servers")

wlst_list_applications(p, res) ==
    ListReturn(p, res,
               "No applications deployed or unable to parse application list.",
               "# Deployed Applications")

wlst_server_health(p, res) ==
    ListReturn(p, res, "No health data available or unable to parse.",
               "# Server Health Status")

wlst_server_metrics(p, res) ==
    IF ~res.success THEN _handle_error(res)
    ELSE LET metrics == ParseTagged(res.stdout, "METRICS_JSON:", J_NONE)
             err     == "METRICS_ERROR: "
         IN  IF Falsy(metrics)
             THEN IF InText(res.stdout, err)
                  THEN Returned("OperationFailure",
                                <<"Error getting metrics: ">>
                                    \o Replace(LinesWith(res.stdout, err)[1], err))
                  ELSE Returned("Unable", <<"Unable to retrieve metrics.">>)
             ELSE Render(p, metrics, "# Metrics")

wlst_list_datasources(p, res) ==
    IF ~res.success THEN _handle_error(res)
    ELSE Render(p, ParseTagged(res.stdout, "DS_JSON:", J_EMPTY_ARRAY),
                "# JDBC Datasources")

wlst_list_jms_resources(p, res) ==
    IF ~res.success THEN _handle_error(res)
    ELSE Render(p, ParseTagged(res.stdout, "JMS_JSON:", J_JMS_DEFAULT),
                "# JMS Resources")

wlst_thread_dump(p, res) ==
    IF ~res.success THEN _handle_error(res)
    ELSE LET err       == "THREAD_DUMP_ERROR: "
             output    == Join(res.stdout)
             start_idx == Find(output, THREAD_DUMP_START)
             end_idx   == Find(output, THREAD_DUMP_END)
         IN  IF InText(res.stdout, err)
             THEN Returned("OperationFailure",
                           <<"Error getting thread dump: ">>
                               \o Replace(LinesWith(res.stdout, err)[1], err))
             ELSE IF start_idx # 0 /\ end_idx # 0
             THEN LET thread_dump == Strip(SubSeq(output, start_idx + 1, end_idx - 1))
                  IN  Success(<<"# Thread Dump">> \o thread_dump, thread_dump)
             ELSE Returned("Unable", <<"Unable to retrieve thread dump.">>)

wlst_execute_script(p, res) ==
    IF ~res.success
    THEN Returned("ScriptFailed",
                  <<"Script execution failed:", "**STDOUT:**">> \o Join(res.stdout)
                      \o <<"**STDERR:**">> \o res.stderr)
    ELSE Success(<<"Script executed successfully:">> \o Join(res.stdout),
                 Join(res.stdout))

\* The statements of a tool handler after `result = await _execute_wlst_script(...)`.
HandlerReturn(p, res) ==
    CASE p.op = "wlst_test_connection"    -> wlst_test_connection(p, res)
      [] p.op = "wlst_list_servers"       -> wlst_list_servers(p, res)
      [] p.op = "wlst_start_server"       -> wlst_start_server(p, res)
      [] p.op = "wlst_stop_server"        -> wlst_stop_server(p, res)
      [] p.op = "wlst_restart_server"     -> wlst_restart_server(p, res)
      [] p.op = "wlst_deploy"             -> wlst_deploy(p, res)
      [] p.op = "wlst_undeploy"           -> wlst_undeploy(p, res)
      [] p.op = "wlst_list_applications"  -> wlst_list_applications(p, res)
      [] p.op = "wlst_server_health"      -> wlst_server_health(p, res)
      [] p.op = "wlst_server_metrics"     -> wlst_server_metrics(p, res)
      [] p.op = "wlst_list_datasources"   -> wlst_list_datasources(p, res)
      [] p.op = "wlst_list_jms_resources" -> wlst_list_jms_resources(p, res)
      [] p.op = "wlst_thread_dump"        -> wlst_thread_dump(p, res)
      [] p.op = "wlst_execute_script"     -> wlst_execute_script(p, res)


-----------------------------------------------------------------------------
(* Script composition *)

\* def _build_connect_script(admin_url, username, password)
_build_connect_script(admin_url, username, password) ==
    <<"try:", "connect('", username, "', '", password, "', '", admin_url, "')",
      "except Exception as e:", "print('CONNECTION_ERROR: ' + str(e))", "exit(1)">>

\* def _build_disconnect_script()
_build_disconnect_script == <<"try:", "disconnect()", "except:", "pass">>

\* A fragment that runs the call and prints the success marker unguarded.
TryReport_unguarded(call, okPrint, errPrint) == call \o okPrint

\* try: <call>; print(<success marker>) except: print(<error marker>)
TryReport(call, okPrint, errPrint) ==
    <<"try:">> \o call \o okPrint \o <<"except Exception as e:", errPrint>>

\* The operation fragment between the connect and the disconnect fragment.
OperationFragment(p) ==
    CASE p.op = "wlst_test_connection" ->
            <<"domainName = cmo.getName()", "print('CONNECTION_SUCCESS')",
              "print('DOMAIN_NAME: ' + str(domainName))",
              "print('DOMAIN_VERSION: ' + str(domainVersion))">>
      [] p.op = "wlst_start_server" ->
            TryReport(<<"start('", p.server_name, "', 'Server')">>,
                      <<"print('SERVER_STARTED: ", p.server_name, "')">>,
                      "print('START_ERROR: ' + str(e))")
      [] p.op = "wlst_stop_server" ->
            TryReport(<<"shutdown('", p.server_name, "', 'Server')">>,
                      <<"print('SERVER_STOPPED: ", p.server_name, "')">>,
                      "print('STOP_ERROR: ' + str(e))")
      [] p.op = "wlst_restart_server" ->
            TryReport(<<"shutdown('", p.server_name, "', 'Server')",
                        "print('SERVER_STOPPED: ", p.server_name, "')",
                        "start('", p.server_name, "', 'Server')">>,
                      <<"print('SERVER_RESTARTED: ", p.server_name, "')">>,
                      "print('RESTART_ERROR: ' + str(e))")
      [] p.op = "wlst_deploy" ->
            TryReport(<<"deploy('", p.app_name, "', '", p.app_path, "'",
                        ", stageMode='", p.stage_mode, "')">>,
                      <<"print('DEPLOY_SUCCESS: ", p.app_name, "')">>,
                      "print('DEPLOY_ERROR: ' + str(e))")
      [] p.op = "wlst_undeploy" ->
            TryReport(<<"undeploy('", p.app_name, "')">>,
                      <<"print('UNDEPLOY_SUCCESS: ", p.app_name, "')">>,
                      "print('UNDEPLOY_ERROR: ' + str(e))")
      [] p.op = "wlst_list_servers" ->
            <<"servers = [...]", "print('SERVERS_JSON:' + json.dumps(servers))">>
      [] p.op = "wlst_list_applications" ->
            <<"apps = [...]", "print('APPS_JSON:' + json.dumps(apps))">>
      [] p.op = "wlst_server_health" ->
            <<"health_data = [...]", "print('HEALTH_JSON:' + json.dumps(health_data))">>
      [] p.op = "wlst_server_metrics" ->
            TryReport(<<"metrics = {'server': '", p.server_name, "', ...}">>,
                      <<"print('METRICS_JSON:' + json.dumps(metrics))">>,
                      "print('METRICS_ERROR: ' + str(e))")
      [] p.op = "wlst_list_datasources" ->
            <<"datasources = [...]", "print('DS_JSON:' + json.dumps(datasources))">>
      [] p.op = "wlst_list_jms_resources" ->
            <<"jms_data = {...}", "print('JMS_JSON:' + json.dumps(jms_data))">>
      [] p.op = "wlst_thread_dump" ->
            TryReport(<<"cd('/ServerRuntimes/", p.server_name, "')",
                        "threadDump = cmo.getThreadStackDump()">>,
                      <<"print('THREAD_DUMP_START')", "print(threadDump)",
                        "print('THREAD_DUMP_END')">>,
                      "print('THREAD_DUMP_ERROR: ' + str(e))")
      [] p.op = "wlst_execute_script" ->
            <<"# User script starts here">> \o p.script \o <<"# User script ends here">>

\* A composition that wraps the custom script whether or not credentials
\* are available.
Compose_always_wrapped(p) ==
    LET connect == _build_connect_script(p.admin_url, p.username, p.password)
        wrapped == connect \o OperationFragment(p) \o _build_disconnect_script
    IN  IF p.op \in JsonOps THEN <<"import json">> \o wrapped ELSE wrapped

\* The script a tool handler passes to _execute_wlst_script.
Compose(p) ==
    LET connect == _build_connect_script(p.admin_url, p.username, p.password)
        wrapped == connect \o OperationFragment(p) \o _build_disconnect_script
    IN  IF p.op = "wlst_execute_script"
        THEN IF p.admin_url # "" /\ p.username # "" /\ p.password # ""
             THEN wrapped ELSE p.script
        ELSE IF p.op \in JsonOps THEN <<"import json">> \o wrapped
        ELSE wrapped

\* Whether a script starts its work with the connect fragment.
HasConnectFragment(s) == Contains(s, "print('CONNECTION_ERROR: ' + str(e))")

-----------------------------------------------------------------------------
(* Inputs of a tool call *)

ResponseFormats == {"markdown", "json"}

\* The validated input model of a call: creds tells whether admin URL, username
\* and password resolve to non-empty values (from the call or the environment).
Input(op, fmt, t, creds) ==
    [op              |-> op,
     response_format |-> fmt,
     timeout         |-> t,
     admin_url       |-> IF creds THEN "t3://adminhost:7001" ELSE "",
     username        |-> IF creds THEN "weblogic" ELSE "",
     password        |-> IF creds THEN "welcome1" ELSE "",
     server_name     |-> "srv1",
     app_name        |-> "app1",
     app_path        |-> "/apps/app1.war",
     stage_mode      |-> "stage",
     script          |-> <<"print('hello')">>]

\* A value with a quote character in it, which pydantic accepts for every
\* str field (the fields have length limits only).
HostileValue == "srv1' + evil() + '"

\* A value has an unescaped quote when it would end the '...' literal the
\* f-string places it in.
HasUnescapedQuote(v) == v = HostileValue

\* A value that holds the text of a marker ('SERVER_RESTARTED' is a valid
\* server name): as a token, the marker itself.
MarkerValue == "SERVER_RESTARTED: "

\* Values a caller passes as server_name / app_name.
Names == {"srv1", HostileValue, MarkerValue}

\* The tools whose script has the server or application name in it.
NameOps == LifecycleOps \cup {"wlst_server_metrics", "wlst_thread_dump"}

\* The input of a call with its name and with the origin of the credentials:
\* supplied tells whether the caller passed admin_url, username and password
\* itself; otherwise get_admin_url(), get_username() and get_password() fall
\* back to DEFAULT_ADMIN_URL, DEFAULT_USERNAME and DEFAULT_PASSWORD.
InputWith(op, fmt, t, creds, name, supplied) ==
    [f \in DOMAIN Input(op, fmt, t, creds) \cup {"supplied"} |->
        CASE f = "supplied"    -> supplied
          [] f = "server_name" -> name
          [] f = "app_name"    -> name
          [] OTHER             -> Input(op, fmt, t, creds)[f]]

NoParams == InputWith("none", "markdown", 0, FALSE, "srv1", FALSE)

\* The timeout the handler passes to the runner.
RunnerTimeout(p) ==
    IF p.op = "wlst_deploy" THEN DEFAULT_TIMEOUT * 2
    ELSE IF p.op \in TimeoutOps /\ p.timeout # 0 THEN p.timeout
    ELSE DEFAULT_TIMEOUT


-----------------------------------------------------------------------------
(* What the interpreter process can write *)

\* The lines an interpreter run for tool op may print: other text, a
\* connection-error line, lines carrying the tool's own markers (alone or
\* after other text), with payloads that decode and one that does not.
Lines(op) ==
    {<<"noise">>, <<CONNECTION_ERROR, "msg1">>}
    \cup (IF op \in JsonOps
          THEN {<<SuccessTag(op), j>> : j \in JsonTexts \cup {"garbage"}}
               \cup {<<"noise", SuccessTag(op), J_ROWS>>}
          ELSE {})
    \cup (IF op \in LifecycleOps THEN {<<SuccessTag(op), "name">>} ELSE {})
    \cup (IF ErrorTag(op) # NoTag
          THEN {<<ErrorTag(op), "msg1">>, <<ErrorTag(op), "msg2">>,
                <<"noise", ErrorTag(op), "msg1">>}
          ELSE {})
    \cup (IF op = "wlst_test_connection"
          THEN {<<"CONNECTION_SUCCESS">>, <<"DOMAIN_NAME: ", "base_domain">>}
          ELSE {})
    \cup (IF op = "wlst_thread_dump"
          THEN {<<THREAD_DUMP_START>>, <<THREAD_DUMP_END>>,
                <<THREAD_DUMP_START, "stack", THREAD_DUMP_END>>}
          ELSE {})

Stdouts(op) == UNION {[1 .. n -> Lines(op)] : n \in 0 .. MaxLines}

Stderrs == {<< >>, <<"stderr text">>}

ExitCodes == {0, 1}

\* str(e) of the exception connect() raises.
ConnectMessages == {"Connection refused", "User failed to be authenticated"}

NoChild == [returncode |-> 0, stdout |-> << >>, stderr |-> << >>, connect_failed |-> FALSE]

-----------------------------------------------------------------------------
(* _execute_wlst_script *)

NoResult == [none |-> TRUE]

\* The dict returned from the `except asyncio.TimeoutError` branch.
TimeoutResult(timeout) ==
    [success |-> FALSE,
     error   |-> PyStr(<<"Script execution timed out after ", IntToStr(timeout), " seconds">>),
     stdout  |-> << >>,
     stderr  |-> << >>]

\* The dict returned after communicate() completed.
CompletedResult(returncode, stdout_str, stderr_str) ==
    [success    |-> returncode = 0,
     returncode |-> returncode,
     stdout     |-> stdout_str,
     stderr     |-> stderr_str,
     error      |-> IF returncode # 0 THEN PyStr(stderr_str) ELSE PyNone]

\* A timeout branch that abandons the wait without signalling the process.
process_kill_forgotten(ps) == [raised |-> FALSE, state |-> ps]

\* process.kill(): sends SIGKILL and returns at once; on a process that has
\* already exited asyncio's transport raises ProcessLookupError.
process_kill(ps) ==
    IF ps = "running" THEN [raised |-> FALSE, state |-> "killing"]
    ELSE [raised |-> TRUE, state |-> ps]

\* A cleanup that never deletes the file.
os_unlink_forgotten(fs, path, ok) == fs

\* A cleanup that empties the temporary directory.
os_unlink_all(fs, path, ok) == IF ok THEN {} ELSE fs

\* finally: try: os.unlink(script_path) except: pass
os_unlink(fs, path, ok) == IF ok THEN fs \ {path} ELSE fs

NoHist == [launches |-> 0, launch_failed |-> FALSE, timed_out |-> FALSE,
           kill_sent |-> FALSE, unlink_calls |-> 0, unlink_failed |-> FALSE,
           commands |-> << >>]

\* An end of the call that goes back to the launch when the operation did not
\* succeed.
Finish_retry(i, res, oc, ok, h) ==
    /\ files' = os_unlink(files, script_path[i], ok)
    /\ result' = [result EXCEPT ![i] = res]
    /\ outcome' = [outcome EXCEPT ![i] = oc]
    /\ pc' = [pc EXCEPT ![i] = IF oc.kind = "Success" THEN "returned" ELSE "launching"]
    /\ hist' = [hist EXCEPT ![i] = [h EXCEPT !.unlink_calls = @ + 1,
                                             !.unlink_failed = ~ok]]

\* An end of the call in which a failing os.unlink replaces the primary result.
Finish_unlink_raises(i, res, oc, ok, h) ==
    /\ files' = os_unlink(files, script_path[i], ok)
    /\ result' = [result EXCEPT ![i] = IF ok THEN res ELSE NoResult]
    /\ outcome' = [outcome EXCEPT ![i] = IF ok THEN oc ELSE Raised("OSError")]
    /\ pc' = [pc EXCEPT ![i] = IF ~ok \/ oc.kind = "Raised" THEN "raised" ELSE "returned"]
    /\ hist' = [hist EXCEPT ![i] = [h EXCEPT !.unlink_calls = @ + 1,
                                             !.unlink_failed = ~ok]]

\* The end of _execute_wlst_script and of the handler that awaited it: the
\* finally block runs, then the handler returns oc (or the exception leaves it).
Finish(i, res, oc, ok, h) ==
    /\ files' = os_unlink(files, script_path[i], ok)
    /\ result' = [result EXCEPT ![i] = res]
    /\ outcome' = [outcome EXCEPT ![i] = oc]
    /\ pc' = [pc EXCEPT ![i] = IF oc.kind = "Raised" THEN "raised" ELSE "returned"]
    /\ hist' = [hist EXCEPT ![i] = [h EXCEPT !.unlink_calls = @ + 1,
                                             !.unlink_failed = ~ok]]

-----------------------------------------------------------------------------
(* Actions *)

Init ==
    /\ pc = [i \in Invs |-> "idle"]
    /\ params = [i \in Invs |-> NoParams]
    /\ script = [i \in Invs |-> << >>]
    /\ files = {}
    /\ script_path = [i \in Invs |-> 0]
    /\ proc = [i \in Invs |-> "none"]
    /\ child = [i \in Invs |-> NoChild]
    /\ result = [i \in Invs |-> NoResult]
    /\ outcome = [i \in Invs |-> NoOutcome]
    /\ hist = [i \in Invs |-> NoHist]

\* A tool handler is called: it composes its script and enters
\* _execute_wlst_script, which writes the script to a new temporary file and
\* awaits create_subprocess_exec.
Call(i) ==
    /\ pc[i] = "idle"
    /\ \E op \in Ops, fmt \in ResponseFormats, t \in TimeoutParams,
          creds \in BOOLEAN, name \in TmpNames \ files,
          n \in Names, supplied \in BOOLEAN :
          /\ op \notin JsonOps => fmt = "markdown"
          /\ op \notin TimeoutOps => t = 0
          /\ op # "wlst_execute_script" => creds /\ supplied
          /\ supplied => creds
          /\ op \notin NameOps => n = "srv1"
          /\ params' = [params EXCEPT ![i] = InputWith(op, fmt, t, creds, n, supplied)]
          /\ script' = [script EXCEPT ![i] = Compose(InputWith(op, fmt, t, creds, n, supplied))]
          /\ files' = files \cup {name}
          /\ script_path' = [script_path EXCEPT ![i] = name]
    /\ pc' = [pc EXCEPT ![i] = "launching"]
    /\ UNCHANGED <<proc, child, result, outcome, hist>>

\* create_subprocess_exec returns a process.
LaunchSucceeds(i) ==
    /\ pc[i] = "launching"
    /\ pc' = [pc EXCEPT ![i] = "waiting"]
    /\ proc' = [proc EXCEPT ![i] = "running"]
    /\ hist' = [hist EXCEPT ![i].launches = @ + 1]
    /\ UNCHANGED <<params, script, files, script_path, child, result, outcome>>

\* create_subprocess_exec raises (no such executable, permission denied): the
\* finally block runs and the exception leaves the runner and the handler.
LaunchFails(i) ==
    /\ pc[i] = "launching"
    /\ \E exc \in {"FileNotFoundError", "PermissionError"}, ok \in BOOLEAN :
          Finish(i, NoResult, Raised(exc), ok,
                 [hist[i] EXCEPT !.launches = @ + 1, !.launch_failed = TRUE])
    /\ UNCHANGED <<params, script, script_path, proc, child>>

\* The interpreter runs the script to its end and exits, having written one
\* of the texts outs to its stdout pipe.
ChildExitsWith(i, outs) ==
    /\ proc[i] = "running"
    /\ hist[i].commands = << >>
    /\ \E rc \in ExitCodes, out \in outs, err \in Stderrs :
          child' = [child EXCEPT ![i] = [returncode |-> rc, stdout |-> out,
                                         stderr |-> err, connect_failed |-> FALSE]]
    /\ proc' = [proc EXCEPT ![i] = "exited"]
    /\ UNCHANGED <<pc, params, script, files, script_path, result, outcome, hist>>

\* The interpreter runs the script to its end and exits, having written
\* anything to its pipes.
ChildExits(i) == ChildExitsWith(i, Stdouts(params[i].op))

\* The interpreter runs the connect fragment and connect() raises: the script
\* prints the marker line and calls exit(1).
ChildConnectFails(i) ==
    /\ proc[i] = "running"
    /\ hist[i].commands = << >>
    /\ HasConnectFragment(script[i])
    /\ \E banner \in {<< >>, <<<<"noise">>>>}, m \in ConnectMessages, err \in Stderrs :
          child' = [child EXCEPT ![i] =
                       [returncode |-> 1,
                        stdout |-> banner \o <<<<CONNECTION_ERROR, m>>>>,
                        stderr |-> err, connect_failed |-> TRUE]]
    /\ proc' = [proc EXCEPT ![i] = "exited"]
    /\ UNCHANGED <<pc, params, script, files, script_path, result, outcome, hist>>

\* The connect(...) statement of a script, as the interpreter quotes it in a
\* traceback.
ConnectStatement(s) == SubSeq(s, Find(s, "connect('"), Find(s, "connect('") + 6)

\* The interpreter stops at the connect statement with an error the fragment
\* does not catch (a SyntaxError, a Java Error): it prints the traceback, which
\* quotes the source line, to stderr and exits with status 1.
ChildTraceback(i) ==
    /\ proc[i] = "running"
    /\ hist[i].commands = << >>
    /\ HasConnectFragment(script[i])
    /\ child' = [child EXCEPT ![i] =
                    [returncode |-> 1,
                     stdout |-> << >>,
                     stderr |-> <<"Traceback: ">> \o ConnectStatement(script[i]),
                     connect_failed |-> FALSE]]
    /\ proc' = [proc EXCEPT ![i] = "exited"]
    /\ UNCHANGED <<pc, params, script, files, script_path, result, outcome, hist>>

\* The server commands of a script and the lines its prints of a marker and
\* a name write.
ServerCommand(tok) ==
    CASE tok = "shutdown('" -> "shutdown"
      [] tok = "start('"    -> "start"
      [] OTHER              -> NoTag

PrintedTag(tok) ==
    CASE tok = "print('SERVER_STOPPED: "   -> "SERVER_STOPPED: "
      [] tok = "print('SERVER_RESTARTED: " -> "SERVER_RESTARTED: "
      [] OTHER                             -> NoTag

\* The statements between `try:` and `except Exception as e:` of the fragment
\* whose handler prints errPrint.
TryBody(s, errPrint) ==
    LET e == Find(s, errPrint)
        a == CHOOSE k \in 1 .. e - 2 :
                 s[k] = "try:" /\ \A j \in k + 1 .. e - 2 : s[j] # "try:"
    IN  SubSeq(s, a + 1, e - 2)

\* The interpreter runs the statements of a try body in order: a server
\* command in fails raises and ends the body, any other completes; a print
\* writes its line.  st holds the lines written so far, the commands
\* attempted with their results, and whether an exception was raised.
RECURSIVE RunBody(_, _, _)
RunBody(body, fails, st) ==
    IF body = << >> THEN st
    ELSE LET tok == Head(body)
         IN  IF ServerCommand(tok) # NoTag
             THEN IF ServerCommand(tok) \in fails
                  THEN [st EXCEPT !.commands = Append(@, [cmd |-> ServerCommand(tok), ok |-> FALSE]),
                                  !.raised = TRUE]
                  ELSE RunBody(Tail(body), fails,
                               [st EXCEPT !.commands = Append(@, [cmd |-> ServerCommand(tok), ok |-> TRUE])])
             ELSE IF PrintedTag(tok) # NoTag
             THEN RunBody(Tail(body), fails,
                          [st EXCEPT !.out = Append(@, <<PrintedTag(tok), body[2]>>)])
             ELSE RunBody(Tail(body), fails, st)

\* try: <body> except Exception as e: print('RESTART_ERROR: ' + str(e))
RunRestart(s, fails, msg) ==
    LET st == RunBody(TryBody(s, "print('RESTART_ERROR: ' + str(e))"), fails,
                      [out |-> << >>, commands |-> << >>, raised |-> FALSE])
    IN  IF st.raised
        THEN [st EXCEPT !.out = Append(@, <<"RESTART_ERROR: ", msg>>)]
        ELSE st

\* The interpreter connects and runs the restart fragment; each of shutdown()
\* and start() succeeds or raises.  The lines are in the pipe, the process
\* has not exited yet.
ChildRunsRestart(i) ==
    /\ proc[i] = "running"
    /\ hist[i].commands = << >>
    /\ params[i].op = "wlst_restart_server"
    /\ ~HasUnescapedQuote(params[i].server_name)
    /\ \E fails \in SUBSET {"shutdown", "start"}, m \in {"msg1"} :
          LET r == RunRestart(script[i], fails, m)
          IN  /\ child' = [child EXCEPT ![i] = [@ EXCEPT !.stdout = r.out]]
              /\ hist' = [hist EXCEPT ![i] = [@ EXCEPT !.commands = r.commands]]
    /\ UNCHANGED <<pc, params, script, files, script_path, proc, result, outcome>>

\* The interpreter reaches the end of the restart script and exits.
ChildExitsAfterRestart(i) ==
    /\ proc[i] = "running"
    /\ hist[i].commands # << >>
    /\ \E rc \in ExitCodes, err \in Stderrs :
          child' = [child EXCEPT ![i] = [@ EXCEPT !.returncode = rc, !.stderr = err]]
    /\ proc' = [proc EXCEPT ![i] = "exited"]
    /\ UNCHANGED <<pc, params, script, files, script_path, result, outcome, hist>>

\* communicate() completes before the timeout: the runner builds its result,
\* deletes the file and returns, and the handler classifies the result.
CommunicateReturns(i) ==
    /\ pc[i] = "waiting"
    /\ proc[i] = "exited"
    /\ LET res == CompletedResult(child[i].returncode, child[i].stdout, child[i].stderr)
       IN  \E ok \in BOOLEAN :
              Finish(i, res, HandlerReturn(params[i], res), ok, hist[i])
    /\ UNCHANGED <<params, script, script_path, proc, child>>

\* wait_for raises TimeoutError before communicate() has returned: the runner
\* calls process.kill() and returns the timeout result without awaiting the
\* process.  When the process has exited already, kill() raises.
TimeoutExpires(i) ==
    /\ pc[i] = "waiting"
    /\ proc[i] \in {"running", "exited"}
    /\ LET k   == process_kill(proc[i])
           res == TimeoutResult(RunnerTimeout(params[i]))
           h   == [hist[i] EXCEPT !.timed_out = TRUE, !.kill_sent = (k.state = "killing")]
       IN  /\ proc' = [proc EXCEPT ![i] = k.state]
           /\ \E ok \in BOOLEAN :
                 IF k.raised
                 THEN Finish(i, NoResult, Raised("ProcessLookupError"), ok, h)
                 ELSE Finish(i, res, HandlerReturn(params[i], res), ok, h)
    /\ UNCHANGED <<params, script, script_path, child>>

\* The operating system delivers the SIGKILL.
ChildDies(i) ==
    /\ proc[i] = "killing"
    /\ proc' = [proc EXCEPT ![i] = "dead"]
    /\ UNCHANGED <<pc, params, script, files, script_path, child, result, outcome, hist>>

\* One tool call followed from its start to its end, with every output the
\* interpreter can produce.
Next ==
    \E i \in {1} :
        \/ Call(i)
        \/ LaunchSucceeds(i)
        \/ LaunchFails(i)
        \/ ChildExits(i)
        \/ ChildConnectFails(i)
        \/ ChildTraceback(i)
        \/ ChildRunsRestart(i)
        \/ ChildExitsAfterRestart(i)
        \/ CommunicateReturns(i)
        \/ TimeoutExpires(i)
        \/ ChildDies(i)

Spec == Init /\ [][Next]_vars


-----------------------------------------------------------------------------
(* Properties of _execute_wlst_script *)

Done(i) == pc[i] \in {"returned", "raised"}

\* The runner handed a result dict to the handler (it did not raise).
HasResult(i) == Done(i) /\ result[i] # NoResult

\* communicate() completed and the runner built its result from it.
Completed(i) == HasResult(i) /\ ~hist[i].timed_out

\* C1 as stated: whenever the call has returned or raised, the temporary
\* script file it created no longer exists.
C1_FileGoneOnEveryExit ==
    \A i \in Invs : Done(i) => script_path[i] \notin files

\* C1, amended: on every way the call ends, os.unlink has been called exactly
\* once on the file, and the file no longer exists unless that call failed.
C1_FileGoneUnlessUnlinkFails ==
    \A i \in Invs :
        Done(i) => /\ hist[i].unlink_calls = 1
                   /\ ~hist[i].unlink_failed => script_path[i] \notin files

\* The timeout path ended with the file deleted.
C1_Witness ==
    \E i \in Invs : /\ pc[i] = "returned" /\ hist[i].timed_out
                    /\ ~hist[i].unlink_failed /\ script_path[i] \notin files

\* C2: whenever the call has returned or raised, the interpreter process it
\* launched has terminated.
C2_NoProcessLeftRunning ==
    \A i \in Invs : Done(i) => proc[i] \in {"none", "exited", "dead"}

\* C3: when the timeout expires while the process is still running, the
\* runner sends it the kill and returns success=false, an error naming the
\* timeout bound, and empty stdout and stderr; and a kill is only ever sent
\* by a step in which the timeout expires.
C3_TimeoutKillsAndReports ==
    [][\A i \in Invs :
          /\ (pc[i] = "waiting" /\ proc[i] = "running" /\ hist'[i].timed_out)
                => /\ proc'[i] = "killing"
                   /\ pc'[i] = "returned"
                   /\ result'[i] # NoResult
                   /\ result'[i].success = FALSE
                   /\ result'[i].stdout = << >> /\ result'[i].stderr = << >>
                   /\ ~result'[i].error.none
                   /\ Contains(result'[i].error.s, "Script execution timed out after ")
                   /\ Contains(result'[i].error.s, IntToStr(RunnerTimeout(params[i])))
          /\ (proc[i] # "killing" /\ proc'[i] = "killing")
                => (~hist[i].timed_out /\ hist'[i].timed_out)
          /\ (hist'[i].kill_sent => hist'[i].timed_out)]_vars

\* A timeout has expired on a running process and the runner has returned.
C3_Witness ==
    \E i \in Invs : /\ pc[i] = "returned" /\ hist[i].timed_out /\ hist[i].kill_sent
                    /\ proc[i] = "killing" /\ ~result[i].success

\* C4 as stated: success is true exactly when the process completed before
\* the timeout with exit status 0; a non-zero exit status or a timeout gives
\* a returned result with success=false and a non-empty error summary, never
\* an exception.
C4_SuccessIffExitZero ==
    \A i \in Invs :
        /\ HasResult(i) => (result[i].success <=>
                               (~hist[i].timed_out /\ child[i].returncode = 0))
        /\ (Done(i) /\ ~hist[i].launch_failed
                /\ (hist[i].timed_out \/ child[i].returncode # 0))
              => /\ pc[i] = "returned" /\ HasResult(i)
                 /\ ~result[i].success
                 /\ Truthy(result[i].error)

-----------------------------------------------------------------------------
(* Properties of the handlers' classification *)

\* Some line with marker a comes before some line with marker b.
LineBefore(text, a, b) ==
    \E k, j \in 1 .. Len(text) : k < j /\ Contains(text[k], a) /\ Contains(text[j], b)

HasSuccessTag(i) == SuccessTag(params[i].op) # NoTag
HasErrorTag(i) == ErrorTag(params[i].op) # NoTag

C7_TimeoutIsReported ==
    \A i \in Invs :
        (HasResult(i) /\ hist[i].timed_out)
        => /\ outcome[i].kind = "Error"
           /\ Contains(outcome[i].msg, "Script execution timed out after ")
           /\ Contains(outcome[i].msg, IntToStr(RunnerTimeout(params[i])))

DecodableLines(text, tag) ==
    {k \in 1 .. Len(text) : Contains(text[k], tag) /\ Decodes(Replace(text[k], tag))}

\* The value of the k-th line of text, which is in DecodableLines(text, tag).
Decoded(text, tag, k) == Replace(text[k], tag)[1]

Last(S) == CHOOSE k \in S : \A j \in S : j <= k

\* The tools that test the decoded value for emptiness.
EmptinessCheckedOps == {"wlst_list_servers", "wlst_list_applications",
                        "wlst_server_health", "wlst_server_metrics"}

\* The shape of the value the tool's own script prints after its tag.
ExpectedShape(op) ==
    IF op \in {"wlst_server_metrics", "wlst_list_jms_resources"} THEN J_OBJECT ELSE J_ROWS

\* Exit status 0, no connection-error marker, and a tagged line that decodes.
TaggedPayloadCase(i) ==
    /\ Completed(i) /\ params[i].op \in JsonOps
    /\ child[i].returncode = 0
    /\ ~InText(result[i].stdout, CONNECTION_ERROR)
    /\ DecodableLines(result[i].stdout, SuccessTag(params[i].op)) # {}

C10_AbsentMarkerIsFailure ==
    \A i \in Invs :
        (/\ Completed(i) /\ HasSuccessTag(i)
         /\ child[i].returncode = 0
         /\ IF params[i].op \in JsonOps
            THEN DecodableLines(result[i].stdout, SuccessTag(params[i].op)) = {}
            ELSE ~InText(result[i].stdout, SuccessTag(params[i].op))
         /\ ~InText(result[i].stdout, CONNECTION_ERROR)
         /\ ~InText(result[i].stdout, ErrorTag(params[i].op)))
        => outcome[i].kind \in {"Unable", "UnknownError"}

-----------------------------------------------------------------------------
(* Properties of the extraction of structured results *)

First(S) == CHOOSE k \in S : \A j \in S : k <= j

\* A JSON-reporting tool ran to exit status 0 and some tagged line decodes.
SeveralTaggedCase(i) ==
    /\ Completed(i) /\ params[i].op \in JsonOps
    /\ child[i].returncode = 0
    /\ DecodableLines(result[i].stdout, SuccessTag(params[i].op)) # {}

\* C11 as stated: when several lines carry the tool's tag, a Success outcome
\* carries the payload decoded from the first such line.
C11_FirstTaggedLineWins ==
    \A i \in Invs :
        (SeveralTaggedCase(i) /\ outcome[i].kind = "Success")
        => LET tag == SuccessTag(params[i].op)
               out == result[i].stdout
           IN  outcome[i].payload = PyStr(<<Decoded(out, tag, First(DecodableLines(out, tag)))>>)

\* C11, amended: the payload used for the outcome is the one decoded from
\* the last tagged line that decodes; every later tagged line that decodes
\* replaces the value of the earlier ones, and tagged lines that do not
\* decode are skipped.
C11_LastTaggedLineWins ==
    \A i \in Invs :
        SeveralTaggedCase(i)
        => LET tag  == SuccessTag(params[i].op)
               out  == result[i].stdout
               last == Decoded(out, tag, Last(DecodableLines(out, tag)))
           IN  /\ \A v \in {J_EMPTY_ARRAY, J_NONE, J_JMS_DEFAULT} :
                     ParseTagged(out, tag, v) = last
               /\ outcome[i].kind = "Success" => outcome[i].payload = PyStr(<<last>>)
               /\ outcome[i].kind \in {"Unable", "OperationFailure"} => Falsy(last)

\* Two tagged lines decode to different values; the value of the second is
\* returned although the first one decodes too.
C11_Witness ==
    \E i \in Invs :
        /\ SeveralTaggedCase(i) /\ params[i].op = "wlst_server_metrics"
        /\ result[i].stdout = <<<<"METRICS_JSON:", J_ROWS>>, <<"METRICS_JSON:", J_OBJECT>>>>
        /\ outcome[i].kind = "Success"
        /\ outcome[i].payload = PyStr(<<J_OBJECT>>)

\* The thread-dump tool ran to exit status 0 and printed no error marker, so
\* the extraction between the sentinels decides the outcome.
ExtractionCase(i) ==
    /\ Completed(i) /\ params[i].op = "wlst_thread_dump"
    /\ child[i].returncode = 0
    /\ ~InText(result[i].stdout, "THREAD_DUMP_ERROR: ")

\* Positions of a token in a text.
Occurrences(s, tok) == {k \in 1 .. Len(s) : s[k] = tok}

\* C12 as stated: the extraction returns the trimmed text strictly between
\* the first THREAD_DUMP_START and the first THREAD_DUMP_END after it, and
\* "unable to retrieve" when a sentinel is missing or the end sentinel
\* occurs only before the start sentinel.
C12_BetweenStartAndNextEnd ==
    \A i \in Invs :
        ExtractionCase(i)
        => LET output == Join(result[i].stdout)
               starts == Occurrences(output, THREAD_DUMP_START)
               ends   == IF starts = {} THEN {}
                         ELSE {k \in Occurrences(output, THREAD_DUMP_END) : k > First(starts)}
           IN  IF ends = {}
               THEN outcome[i].kind = "Unable"
               ELSE /\ outcome[i].kind = "Success"
                    /\ outcome[i].payload =
                          PyStr(Strip(SubSeq(output, First(starts) + 1, First(ends) - 1)))

\* C12, amended: the end sentinel is searched from the beginning of the
\* output, not from the start sentinel.  "Unable to retrieve" is returned
\* exactly when a sentinel is missing; when both are present the result is
\* the trimmed text between the first THREAD_DUMP_START and the first
\* THREAD_DUMP_END of the whole output, which is the empty text when that
\* first end sentinel comes before the start sentinel.
C12_BetweenFirstStartAndFirstEnd ==
    \A i \in Invs :
        ExtractionCase(i)
        => LET output == Join(result[i].stdout)
               starts == Occurrences(output, THREAD_DUMP_START)
               ends   == Occurrences(output, THREAD_DUMP_END)
           IN  IF starts = {} \/ ends = {}
               THEN outcome[i].kind = "Unable"
               ELSE /\ outcome[i].kind = "Success"
                    /\ outcome[i].payload =
                          IF First(ends) < First(starts) THEN PyStr(<< >>)
                          ELSE PyStr(Strip(SubSeq(output, First(starts) + 1, First(ends) - 1)))

\* The end sentinel came first and the tool returned an empty thread dump.
C12_Witness ==
    \E i \in Invs :
        /\ ExtractionCase(i)
        /\ result[i].stdout = <<<<THREAD_DUMP_END>>, <<THREAD_DUMP_START, "stack", THREAD_DUMP_END>>>>
        /\ outcome[i].kind = "Success" /\ outcome[i].payload = PyStr(<< >>)

-----------------------------------------------------------------------------
(* Properties of the order and the conditions of the marker checks *)

\* stdout carries the tool's success marker in the form the handler accepts:
\* the marker itself, a tagged line that decodes, or both sentinels.
SuccessMarkerPresent(i) ==
    LET op  == params[i].op
        out == result[i].stdout
    IN  /\ SuccessTag(op) # NoTag
        /\ IF op \in JsonOps THEN DecodableLines(out, SuccessTag(op)) # {}
           ELSE IF op = "wlst_thread_dump"
           THEN InText(out, THREAD_DUMP_START) /\ InText(out, THREAD_DUMP_END)
           ELSE InText(out, SuccessTag(op))

\* The value of the last tagged line that decodes (JSON-reporting tools).
LastPayload(i) ==
    Decoded(result[i].stdout, SuccessTag(params[i].op),
            Last(DecodableLines(result[i].stdout, SuccessTag(params[i].op))))

\* Exit status 0 with both the success marker and the tool's own error marker.
BothMarkersCase(i) ==
    /\ Completed(i) /\ HasErrorTag(i)
    /\ child[i].returncode = 0
    /\ SuccessMarkerPresent(i)
    /\ InText(result[i].stdout, ErrorTag(params[i].op))

\* C13 as stated: when the process exits 0 and stdout has both the success
\* marker (present and decodable, or both sentinels) and the tool's own
\* error marker, the outcome is Success, for every tool.
C13_SuccessMarkerBeforeErrorMarker ==
    \A i \in Invs : BothMarkersCase(i) => outcome[i].kind = "Success"

\* C13, amended: in that case start, stop, restart, deploy and undeploy
\* return Success; metrics returns Success when the decoded payload is not
\* empty (a rendering exception is possible for markdown with a payload of
\* another shape) and its operation failure when the payload is empty; the
\* thread dump tests its error marker first and returns its operation
\* failure.
C13_SuccessMarkerFirstExceptThreadDump ==
    \A i \in Invs :
        BothMarkersCase(i)
        => LET op == params[i].op
           IN  CASE op \in LifecycleOps -> outcome[i].kind = "Success"
                 [] op = "wlst_server_metrics" ->
                      IF LastPayload(i) \in {J_EMPTY_ARRAY, J_EMPTY_OBJECT}
                      THEN outcome[i].kind = "OperationFailure"
                      ELSE IF params[i].response_format = "json"
                              \/ LastPayload(i) = ExpectedShape(op)
                      THEN outcome[i].kind = "Success"
                           /\ outcome[i].payload = PyStr(<<LastPayload(i)>>)
                      ELSE outcome[i].kind \in {"Success", "Raised"}
                 [] op = "wlst_thread_dump" -> outcome[i].kind = "OperationFailure"

\* Deployment printed its error marker and then its success marker, exited
\* 0, and Success was returned.
C13_Witness ==
    \E i \in Invs :
        /\ BothMarkersCase(i) /\ params[i].op = "wlst_deploy"
        /\ result[i].stdout = <<<<"DEPLOY_ERROR: ", "msg1">>, <<"DEPLOY_SUCCESS: ", "name">>>>
        /\ outcome[i].kind = "Success"

\* stdout has the tool's error marker, no connection-error marker and no
\* success marker.
OnlyErrorMarkerCase(i) ==
    LET op  == params[i].op
        out == result[i].stdout
    IN  /\ Completed(i) /\ HasErrorTag(i)
        /\ InText(out, ErrorTag(op))
        /\ ~InText(out, CONNECTION_ERROR)
        /\ ~InText(out, SuccessTag(op))

\* The first line of text that carries the marker.
FirstLineWith(text, tok) == text[First({k \in 1 .. Len(text) : Contains(text[k], tok)})]

\* The text that follows the marker on a line.
After(line, tok) == SubSeq(line, Find(line, tok) + 1, Len(line))

\* C14 as stated: in that case the outcome is the operation failure whose
\* message is the text following the marker on the first such line,
\* whatever the exit status.
C14_ErrorMarkerIsOperationFailure ==
    \A i \in Invs :
        OnlyErrorMarkerCase(i)
        => /\ outcome[i].kind = "OperationFailure"
           /\ Tail(outcome[i].msg) =
                 After(FirstLineWith(result[i].stdout, ErrorTag(params[i].op)),
                       ErrorTag(params[i].op))

\* C14, amended: start, stop, restart, deploy and undeploy return the
\* operation failure whatever the exit status; metrics and thread dump
\* return it only when the exit status is 0, and with a non-zero exit status
\* return the error text of _handle_error (stderr, or the unknown error when
\* stderr is empty).  The message of the operation failure is the first line
\* carrying the marker with the marker removed, so text that precedes the
\* marker on that line is kept.
C14_ErrorMarkerIsOperationFailureIfReached ==
    \A i \in Invs :
        OnlyErrorMarkerCase(i)
        => LET op   == params[i].op
               line == FirstLineWith(result[i].stdout, ErrorTag(op))
           IN  IF op \in LifecycleOps \/ child[i].returncode = 0
               THEN /\ outcome[i].kind = "OperationFailure"
                    /\ Tail(outcome[i].msg) = SelectSeq(line, LAMBDA t : t # ErrorTag(op))
               ELSE outcome[i].kind =
                       IF child[i].stderr # << >> THEN "Error" ELSE "UnknownError"

\* Stop exited non-zero with two error lines and the message of the first
\* one was returned.
C14_Witness ==
    \E i \in Invs :
        /\ OnlyErrorMarkerCase(i) /\ params[i].op = "wlst_stop_server"
        /\ child[i].returncode # 0
        /\ result[i].stdout = <<<<"STOP_ERROR: ", "msg2">>, <<"STOP_ERROR: ", "msg1">>>>
        /\ outcome[i].kind = "OperationFailure"
        /\ Tail(outcome[i].msg) = <<"msg2">>

\* stdout carries the success marker, in the shape the tool's script prints
\* it, and neither the connection-error marker nor the tool's error marker.
CleanSuccessCase(i) ==
    LET op  == params[i].op
        out == result[i].stdout
    IN  /\ Completed(i) /\ SuccessMarkerPresent(i)
        /\ ~InText(out, CONNECTION_ERROR)
        /\ ~InText(out, ErrorTag(op))
        /\ op \in JsonOps => LastPayload(i) = ExpectedShape(op)
        /\ op = "wlst_thread_dump"
              => Find(Join(out), THREAD_DUMP_START) < Find(Join(out), THREAD_DUMP_END)

\* C15 as stated: for a tool whose stdout carries its success marker and no
\* connection-error marker, the outcome is Success both when the
\* interpreter exits 0 and when it exits non-zero.
C15_SuccessByMarkerAlone ==
    \A i \in Invs : CleanSuccessCase(i) => outcome[i].kind = "Success"

\* C15, amended: the success marker counts only together with exit status
\* 0.  With a non-zero exit status no tool with a success marker returns
\* Success, whatever stdout carries; when stdout has the success marker and
\* neither the connection-error nor the tool's error marker, the outcome is
\* Success with exit status 0 and the error text of _handle_error (stderr,
\* or the unknown error when stderr is empty) with a non-zero exit status.
C15_SuccessNeedsExitZero ==
    \A i \in Invs :
        /\ (Completed(i) /\ HasSuccessTag(i) /\ child[i].returncode # 0)
              => outcome[i].kind # "Success"
        /\ CleanSuccessCase(i)
              => outcome[i].kind =
                    IF child[i].returncode = 0 THEN "Success"
                    ELSE IF child[i].stderr # << >> THEN "Error" ELSE "UnknownError"

\* The connection test printed CONNECTION_SUCCESS but exited non-zero, and
\* the error text was returned.
C15_Witness ==
    \E i \in Invs :
        /\ CleanSuccessCase(i) /\ params[i].op = "wlst_test_connection"
        /\ child[i].returncode # 0 /\ child[i].stderr # << >>
        /\ outcome[i].kind = "Error"

-----------------------------------------------------------------------------
(* Properties of the propagation of failures *)

\* C16: once the interpreter has been launched and communicate() has
\* returned, no tool raises an exception, whatever stdout, stderr and the
\* exit status are: every failure is returned as an outcome value.
C16_NoUncaughtException ==
    \A i \in Invs : Completed(i) => outcome[i].kind # "Raised"

LaunchExceptions == {"FileNotFoundError", "PermissionError"}

\* C17 as stated: when the interpreter cannot be launched the exception
\* leaves the runner and the tool, no result is produced, nothing is
\* classified, and the temporary script file has been deleted.
C17_LaunchFailurePropagatesFileDeleted ==
    \A i \in Invs :
        (Done(i) /\ hist[i].launch_failed)
        => /\ pc[i] = "raised" /\ outcome[i].kind = "Raised"
           /\ result[i] = NoResult
           /\ script_path[i] \notin files

\* C17, amended: when the interpreter cannot be launched the exception of
\* the launch leaves the runner and the tool, no result is produced, no
\* process exists and nothing is classified; before it leaves the runner
\* the deletion of the temporary script file is attempted once, and the
\* file is gone unless that deletion fails.
C17_LaunchFailurePropagatesDeletionAttempted ==
    \A i \in Invs :
        (Done(i) /\ hist[i].launch_failed)
        => /\ pc[i] = "raised"
           /\ outcome[i].kind = "Raised"
           /\ \E exc \in LaunchExceptions : outcome[i].msg = <<exc>>
           /\ outcome[i].payload = PyNone
           /\ result[i] = NoResult
           /\ proc[i] = "none" /\ child[i] = NoChild
           /\ hist[i].unlink_calls = 1
           /\ ~hist[i].unlink_failed => script_path[i] \notin files

\* The launch failed for a missing executable and the file was deleted.
C17_Witness ==
    \E i \in Invs :
        /\ pc[i] = "raised" /\ hist[i].launch_failed
        /\ outcome[i].msg = <<"FileNotFoundError">>
        /\ ~hist[i].unlink_failed /\ script_path[i] \notin files

\* What the step that ends the call of invocation i hands back, computed
\* from the state before the step and from whether the timeout expired in
\* it: the pairs <<result, outcome>> that do not depend on the deletion.
PrimaryResults(i) ==
    IF pc[i] = "launching"
    THEN {<<NoResult, Raised(exc)>> : exc \in LaunchExceptions}
    ELSE IF hist'[i].timed_out
    THEN IF proc[i] = "running"
         THEN LET res == TimeoutResult(RunnerTimeout(params[i]))
              IN  {<<res, HandlerReturn(params[i], res)>>}
         ELSE {<<NoResult, Raised("ProcessLookupError")>>}
    ELSE LET res == CompletedResult(child[i].returncode, child[i].stdout, child[i].stderr)
         IN  {<<res, HandlerReturn(params[i], res)>>}

\* C18: a failure to delete the temporary script file is swallowed: in every
\* step that ends a call (after completion, timeout or launch failure) the
\* value returned or the exception raised is the one of the primary result,
\* whether or not the deletion succeeded.
C18_UnlinkFailureIsSwallowed ==
    [][\A i \in Invs :
          (~Done(i) /\ pc'[i] \in {"returned", "raised"})
          => /\ <<result'[i], outcome'[i]>> \in PrimaryResults(i)
             /\ pc'[i] = (IF outcome'[i].kind = "Raised" THEN "raised" ELSE "returned")
             /\ hist'[i].unlink_failed => script_path[i] \in files']_vars

\* The deletion failed after a successful run and Success was returned all
\* the same, with the file left behind.
C18_Witness ==
    \E i \in Invs :
        /\ pc[i] = "returned" /\ hist[i].unlink_failed
        /\ Completed(i) /\ result[i].success /\ outcome[i].kind = "Success"
        /\ script_path[i] \in files

-----------------------------------------------------------------------------
(* Concurrent invocations.  The event loop interleaves the coroutines of   *)
(* several tool calls at their awaits; the temporary directory is the one  *)
(* thing they share.  To keep the interleavings of all invocations within  *)
(* reach, each call is one of two tools and each interpreter either prints *)
(* its success line (for the listing tool, possibly with a payload that    *)
(* does not decode) and exits 0, or fails to connect and exits 1.  File    *)
(* names being interchangeable, a call draws the smallest name not in use. *)

ConcOps == {"wlst_start_server", "wlst_list_servers"}

\* The line the script of a tool prints when its operation succeeds.
ConcStdout(op) == <<<<SuccessTag(op), IF op \in JsonOps THEN J_ROWS ELSE "name">>>>

ConcCall(i) ==
    /\ Call(i)
    /\ params'[i].op \in ConcOps
    /\ params'[i].timeout = 0
    /\ params'[i].response_format = (IF params'[i].op \in JsonOps THEN "json" ELSE "markdown")
    /\ params'[i].server_name = "srv1"
    /\ \A name \in TmpNames \ files : script_path'[i] <= name

ConcLaunchFails(i) ==
    /\ LaunchFails(i)
    /\ outcome'[i].msg = <<"FileNotFoundError">>

\* The line a JSON-reporting script prints when its payload does not decode.
ConcBadStdout(op) == <<<<SuccessTag(op), "garbage">>>>

ConcChildExits(i) ==
    /\ ChildExitsWith(i, {ConcStdout(params[i].op)}
                         \cup (IF params[i].op \in JsonOps
                               THEN {ConcBadStdout(params[i].op)} ELSE {}))
    /\ child'[i].returncode = 0
    /\ child'[i].stderr = << >>

ConcChildConnectFails(i) ==
    /\ ChildConnectFails(i)
    /\ child'[i].stdout = <<<<CONNECTION_ERROR, "Connection refused">>>>
    /\ child'[i].stderr = << >>

NextConc ==
    \E i \in Invs :
        \/ ConcCall(i)
        \/ LaunchSucceeds(i)
        \/ ConcLaunchFails(i)
        \/ ConcChildExits(i)
        \/ ConcChildConnectFails(i)
        \/ CommunicateReturns(i)
        \/ TimeoutExpires(i)
        \/ ChildDies(i)

SpecConc == Init /\ [][NextConc]_vars

\* The call of invocation i is between the creation of its file and its end.
Live(i) == pc[i] \in {"launching", "waiting"}

\* C19: under any interleaving of concurrent invocations, the invocations
\* in progress have pairwise distinct temporary files, and each has its own
\* process; a step deletes no file but the one of the invocation that ends
\* in it, and signals no process but the one of the invocation whose
\* timeout expires in it; and a completed result holds exactly the output
\* and the exit status of the invocation's own child.
C19_InvocationsAreIsolated ==
    /\ [](\A i \in Invs :
            /\ Live(i) => script_path[i] \in files
            /\ \A j \in Invs \ {i} : (Live(i) /\ Live(j)) => script_path[i] # script_path[j]
            /\ Completed(i) => /\ result[i].stdout = child[i].stdout
                               /\ result[i].stderr = child[i].stderr
                               /\ result[i].returncode = child[i].returncode)
    /\ [][/\ \A name \in files \ files' :
                \E i \in Invs : Live(i) /\ ~Live(i)' /\ script_path[i] = name
          /\ \A i \in Invs :
                (proc[i] # proc'[i] /\ proc'[i] = "killing")
                => (pc[i] = "waiting" /\ ~hist[i].timed_out /\ hist'[i].timed_out)
          /\ \A i, j \in Invs :
                (i # j /\ pc[i] # pc'[i]) => (proc'[j] = proc[j] /\ result'[j] = result[j])]_vars

\* One invocation timed out and its process was killed while the other,
\* started before that, completed with the output of its own child, each
\* with a file of its own.
C19_Witness ==
    \E i, j \in Invs :
        /\ i # j
        /\ pc[i] = "returned" /\ hist[i].timed_out /\ hist[i].kill_sent
        /\ Completed(j) /\ result[j].stdout = child[j].stdout /\ result[j].stdout # << >>
        /\ child[i].stdout # child[j].stdout
        /\ script_path[i] # script_path[j]

-----------------------------------------------------------------------------
(* Properties of the composed scripts *)

\* The script token in which a tool's script prints its success marker.
SuccessPrint(op) ==
    CASE op = "wlst_test_connection"    -> "print('CONNECTION_SUCCESS')"
      [] op = "wlst_list_servers"       -> "print('SERVERS_JSON:' + json.dumps(servers))"
      [] op = "wlst_start_server"       -> "print('SERVER_STARTED: "
      [] op = "wlst_stop_server"        -> "print('SERVER_STOPPED: "
      [] op = "wlst_restart_server"     -> "print('SERVER_RESTARTED: "
      [] op = "wlst_deploy"             -> "print('DEPLOY_SUCCESS: "
      [] op = "wlst_undeploy"           -> "print('UNDEPLOY_SUCCESS: "
      [] op = "wlst_list_applications"  -> "print('APPS_JSON:' + json.dumps(apps))"
      [] op = "wlst_server_health"      -> "print('HEALTH_JSON:' + json.dumps(health_data))"
      [] op = "wlst_server_metrics"     -> "print('METRICS_JSON:' + json.dumps(metrics))"
      [] op = "wlst_list_datasources"   -> "print('DS_JSON:' + json.dumps(datasources))"
      [] op = "wlst_list_jms_resources" -> "print('JMS_JSON:' + json.dumps(jms_data))"
      [] op = "wlst_thread_dump"        -> "print('THREAD_DUMP_START')"
      [] OTHER                          -> NoTag

\* The script token in which a tool's script prints its error marker.
ErrorPrint(op) ==
    CASE op = "wlst_start_server"   -> "print('START_ERROR: ' + str(e))"
      [] op = "wlst_stop_server"    -> "print('STOP_ERROR: ' + str(e))"
      [] op = "wlst_restart_server" -> "print('RESTART_ERROR: ' + str(e))"
      [] op = "wlst_deploy"         -> "print('DEPLOY_ERROR: ' + str(e))"
      [] op = "wlst_undeploy"       -> "print('UNDEPLOY_ERROR: ' + str(e))"
      [] op = "wlst_server_metrics" -> "print('METRICS_ERROR: ' + str(e))"
      [] op = "wlst_thread_dump"    -> "print('THREAD_DUMP_ERROR: ' + str(e))"
      [] OTHER                      -> NoTag

\* The tokens of all tools' scripts that print an error marker of a tool.
ErrorPrints == {ErrorPrint(op) : op \in Ops} \ {NoTag}

Count(s, tok) == Cardinality(Occurrences(s, tok))

\* Position k of script s is in the body of a try whose handler is
\* `except Exception as e:`.
InTryBody(s, k) ==
    \E a \in 1 .. k - 1, b \in k + 1 .. Len(s) :
        /\ s[a] = "try:" /\ s[b] = "except Exception as e:"
        /\ \A j \in a + 1 .. b - 1 : s[j] \notin {"try:", "except Exception as e:", "except:"}

\* Position k of script s is the first statement of such a handler.
InExceptHandler(s, k) == k > 1 /\ s[k - 1] = "except Exception as e:"

\* The tool of invocation i has composed its script.
Composed(i) == pc[i] # "idle"

C21_NoUnescapedQuoteInScript ==
    \A i \in Invs : Composed(i) =>
        \A k \in 1..Len(script[i]) : ~HasUnescapedQuote(script[i][k])

\* ---------------------------------------------------------------------------
\* C22: the password and the returned message
\* ---------------------------------------------------------------------------

\* C22 (as stated): whatever the interpreter writes, output that quotes lines
\* of the script included, the message returned to the caller does not
\* contain the password (so two calls that differ only in the password and
\* see the same exit status return messages that do not tell them apart).
C22_PasswordNotInMessage ==
    \A i \in Invs :
        (Done(i) /\ params[i].password # "")
        => ~Contains(outcome[i].msg, params[i].password)

\* ---------------------------------------------------------------------------
\* C23: failure messages and the captured output
\* ---------------------------------------------------------------------------

\* part in whole, for two strings
IsSubstring(part, whole) ==
    \E k \in 0 .. Len(whole) - Len(part) : SubSeq(whole, k + 1, k + Len(part)) = part

\* The runner captured the longest stdout the interpreter writes.
LongStdout(i) == HasResult(i) /\ Len(result[i].stdout) = MaxLines

\* C23 (as stated): a failure message is derived from a marker line or from
\* an excerpt of bounded length, so for a captured stdout of any length the
\* failure message does not contain the whole of it.
C23_FailureMessageIsExcerpt ==
    \A i \in Invs :
        (LongStdout(i) /\ outcome[i].kind # "Success")
        => ~IsSubstring(Join(result[i].stdout), outcome[i].msg)

\* ---------------------------------------------------------------------------
\* C24: the script of the custom-script tool
\* ---------------------------------------------------------------------------

\* The caller's script between the connect and the disconnect fragment.
Wrapped(p) ==
    _build_connect_script(p.admin_url, p.username, p.password)
        \o <<"# User script starts here">> \o p.script \o <<"# User script ends here">>
        \o _build_disconnect_script

\* get_admin_url(), get_username() and get_password() all return a non-empty
\* value.
CredentialsResolve(p) == p.admin_url # "" /\ p.username # "" /\ p.password # ""

CustomScriptCase(i) == Composed(i) /\ params[i].op = "wlst_execute_script"

C24_WitnessUnwrapped ==
    \E i \in Invs :
        /\ CustomScriptCase(i)
        /\ ~CredentialsResolve(params[i])
        /\ script[i] = params[i].script

\* ---------------------------------------------------------------------------
\* C25: one pass per invocation, nothing kept between invocations
\* ---------------------------------------------------------------------------

\* How far the call of an invocation has got.
PcRank(p) ==
    CASE p = "idle"      -> 0
      [] p = "launching" -> 1
      [] p = "waiting"   -> 2
      [] OTHER           -> 3

\* C25: each invocation is one pass without retries.  It composes its script
\* and creates its temporary file once, at its start; it attempts the launch
\* at most once, whatever follows (a non-zero exit, a timeout, a payload that
\* does not parse); it never steps back, and once it has returned or raised,
\* its result and outcome stay as they are.  Its script is a function of its
\* own parameters and its outcome a function of its own parameters and its
\* own result, whatever other invocations did before or at the same time.
C25_LinearNoRetry ==
    /\ [](\A i \in Invs :
            /\ hist[i].launches <= 1
            /\ Composed(i) => script[i] = Compose(params[i])
            /\ Done(i) => /\ outcome[i].kind \in OutcomeKinds
                          /\ hist[i].launches = 1
            /\ HasResult(i) => outcome[i] = HandlerReturn(params[i], result[i]))
    /\ [][/\ \A name \in files' \ files :
                \E i \in Invs : pc[i] = "idle" /\ pc'[i] = "launching"
                                    /\ script_path'[i] = name
          /\ \A i \in Invs :
            /\ PcRank(pc'[i]) >= PcRank(pc[i])
            /\ hist'[i].launches >= hist[i].launches
            /\ (params'[i] # params[i] \/ script'[i] # script[i]
                    \/ script_path'[i] # script_path[i])
               => (pc[i] = "idle" /\ pc'[i] = "launching")
            /\ (pc[i] = "idle" /\ pc'[i] = "launching")
               => (files' = files \cup {script_path'[i]} /\ script_path'[i] \notin files)
            /\ Done(i) => /\ pc'[i] = pc[i]
                          /\ outcome'[i] = outcome[i]
                          /\ result'[i] = result[i]
                          /\ hist'[i] = hist[i]]_vars

\* One invocation has ended after a timeout, another after a payload that
\* did not parse, each with one launch behind it.
C25_Witness ==
    \E i, j \in Invs :
        /\ i # j
        /\ Done(i) /\ hist[i].timed_out /\ hist[i].launches = 1
        /\ Done(j) /\ Completed(j) /\ outcome[j].kind # "Success"
        /\ params[j].op \in JsonOps
        /\ result[j].stdout = ConcBadStdout(params[j].op)
        /\ hist[j].launches = 1

\* An invocation has ended after a non-zero exit and the next one, started
\* after it, has succeeded.
C25_WitnessNext ==
    \E i, j \in Invs :
        /\ i # j
        /\ Completed(i) /\ result[i].returncode # 0 /\ hist[i].launches = 1
        /\ Completed(j) /\ outcome[j].kind = "Success"

\* ---------------------------------------------------------------------------
\* C26: the order of the restart script
\* ---------------------------------------------------------------------------

\* The restart script of invocation i has run its try fragment.
RestartRan(i) == params[i].op = "wlst_restart_server" /\ hist[i].commands # << >>

Attempted(i, c) == \E k \in 1 .. Len(hist[i].commands) : hist[i].commands[k].cmd = c
Succeeded(i, c) == \E k \in 1 .. Len(hist[i].commands) :
                       hist[i].commands[k] = [cmd |-> c, ok |-> TRUE]

\* shutdown() completed and start() raised: the server is left stopped.
StoppedNotStarted(i) ==
    RestartRan(i) /\ Succeeded(i, "shutdown") /\ Attempted(i, "start") /\ ~Succeeded(i, "start")

\* The script has printed a line that starts with the marker tag.
Printed(out, tag) == \E k \in 1 .. Len(out) : out[k] # << >> /\ out[k][1] = tag

\* What the restart script does: start is attempted only after shutdown
\* succeeded and never after it failed, the SERVER_RESTARTED line is printed
\* only after both succeeded, and after a failed start the SERVER_STOPPED
\* line and then the RESTART_ERROR line are printed.
RestartScriptOrder(i) ==
    LET c   == hist[i].commands
        out == child[i].stdout
    IN  /\ \A k \in 1 .. Len(c) :
              c[k].cmd = "start" => \E j \in 1 .. k - 1 : c[j] = [cmd |-> "shutdown", ok |-> TRUE]
        /\ ~Succeeded(i, "shutdown") => ~Attempted(i, "start")
        /\ Printed(out, "SERVER_RESTARTED: ")
              <=> (Succeeded(i, "shutdown") /\ Succeeded(i, "start"))
        /\ StoppedNotStarted(i)
              => /\ Printed(out, "SERVER_STOPPED: ")
                 /\ Printed(out, "RESTART_ERROR: ")
                 /\ LineBefore(out, "SERVER_STOPPED: ", "RESTART_ERROR: ")
        /\ ~Succeeded(i, "shutdown")
              => (Printed(out, "RESTART_ERROR: ") /\ ~Printed(out, "SERVER_STOPPED: "))

\* C26 (as stated): the script attempts start only after shutdown succeeded
\* and prints SERVER_RESTARTED only after both succeeded; when shutdown
\* succeeds and start fails, the operation never returns 'restarted
\* successfully'; when shutdown fails, start is never attempted.
C26_FailedStartNeverReportedRestarted ==
    \A i \in Invs :
        RestartRan(i)
        => /\ RestartScriptOrder(i)
           /\ (Done(i) /\ StoppedNotStarted(i)) => outcome[i].kind # "Success"

\* ---------------------------------------------------------------------------
\* C27: the deletion of the file and the life of the child
\* ---------------------------------------------------------------------------

\* os.unlink has removed the temporary script file of invocation i.
FileDeleted(i) == hist[i].unlink_calls = 1 /\ ~hist[i].unlink_failed

\* The child of invocation i can no longer read the file: it has exited,
\* the kill has taken effect, or it was never launched.
ChildGone(i) ==
    \/ proc[i] \in {"exited", "dead"}
    \/ proc[i] = "none" /\ hist[i].launch_failed

\* C27 (as stated): the temporary script file is deleted only after the
\* child has completed, or after its kill has taken effect on the timeout
\* path, or after the launch has failed.
C27_FileDeletedOnlyAfterChildGone ==
    \A i \in Invs : FileDeleted(i) => ChildGone(i)

=============================================================================
